---- MODULE Spec2Model ----
(***************************************************************************)
(* A model of the ShowSnap backend: the Movie and Theater collections, the *)
(* admin movie handlers, the public getMovies query, the TMDB search       *)
(* handler, and the seed script with its fetchWithRetry helper.            *)
(*                                                                         *)
(* Conventions.  A JavaScript value that may be undefined is None or       *)
(* Some(v).  Text that the code parses or matches (query parameters,       *)
(* genre, language, location, title) is a sequence of one-character        *)
(* strings; text that is only compared for equality (theater names, pc     *)
(* labels) is a TLA+ string.  Every awaited database call of a handler     *)
(* that can interleave with another request is a step of its own.          *)
(***************************************************************************)
EXTENDS Integers, Sequences, FiniteSets, TLC

VARIABLES
  movies,    \* the Movie collection, in insertion (natural) order
  theaters,  \* the Theater collection, in insertion (natural) order
  nextId,    \* the next _id the Movie collection hands out
  reqs,      \* the admin requests in flight, one record per connection
  seed,      \* the seed script's position and locals
  query,     \* the last getMovies request and its response
  fetch,     \* one fetchWithRetry call: inputs, position, attempt log
  search,    \* one searchTmdbMovie request: position, languages queried
  handler    \* one request to any handler: position, responses sent

vars == <<movies, theaters, nextId, reqs, seed, query, fetch, search, handler>>

----------------------------------------------------------------------------
(* Bounds of the model. *)

\* Theater documents present before the admin handlers run.
MaxTheaters == 5
\* Movie documents the admin handlers may insert in one behaviour.
MaxMovies == 1
\* The largest `retries` a caller of fetchWithRetry passes explicitly.
MaxRetries == 3
\* Movie documents in the collection getMovies reads.
MaxDocs == 3
\* Query parameters one getMovies request carries.
MaxParams == 3

----------------------------------------------------------------------------
(* Values. *)

None == <<>>
Some(v) == <<v>>

Min(a, b) == IF a < b THEN a ELSE b
Max(a, b) == IF a > b THEN a ELSE b

Range(s) == {s[i] : i \in 1..Len(s)}

LocMumbai == <<"M","u","m","b","a","i">>
LocGhatkopar == <<"G","h","a","t","k","o","p","a","r",","," ","M","u","m","b","a","i">>
LocMulund == <<"M","u","l","u","n","d",","," ","M","u","m","b","a","i">>
LocThane == <<"T","h","a","n","e">>
LocNaviMumbai == <<"N","a","v","i"," ","M","u","m","b","a","i">>

theaterList ==
  << [name |-> "PVR Phoenix Kurla", location |-> LocMumbai],
     [name |-> "INOX R City", location |-> LocGhatkopar],
     [name |-> "NY Cinemas Mulund", location |-> LocMulund],
     [name |-> "R Mall Mulund", location |-> LocMulund],
     [name |-> "Cinepolis - Korum Mall", location |-> LocThane],
     [name |-> "INOX - Viviana Mall", location |-> LocThane],
     [name |-> "PVR - Lake City Mall", location |-> LocThane],
     [name |-> "INOX - Raghuleela Mall", location |-> LocNaviMumbai],
     [name |-> "Cinepolis - Nexus Seawoods Mall", location |-> LocNaviMumbai],
     [name |-> "Miraj Cinemas - Panvel", location |-> LocNaviMumbai],
     [name |-> "PVR - Orion Mall", location |-> LocNaviMumbai] >>

\* The start times of the showtimes linked to a theater.  The date part is
\* the handler's dateStr, computed once per request and the same for the
\* four entries, so a start time is kept as its time of day.
times == <<"10:00", "13:30", "17:00", "21:30">>

\* The showtimes built for one movie in one theater (times.map).  The
\* blockedSeats, screen and availableSeats fields are the same in the copy
\* pushed to the theater and the copy embedded in the movie and are left out.
Showtimes(movieId) ==
  [i \in 1..Len(times) |-> [startTime |-> times[i], movie |-> movieId]]

\* A Theater document as the seed script's upsert creates it.
TheaterDoc(id, name, location) ==
  [id |-> id, name |-> name, location |-> location,
   showtimes |-> <<>>, movieTitles |-> <<>>]

\* A Movie document.
MovieDoc(id, title, genre, rating, language, releaseDate, ths, embedded) ==
  [id |-> id, title |-> title, genre |-> genre, rating |-> rating,
   language |-> language, releaseDate |-> releaseDate,
   theaters |-> ths, embeddedTheaters |-> embedded]

----------------------------------------------------------------------------
(* Text and numbers, as JavaScript converts them.  The model's alphabet is *)
(* the decimal digits, the space, the comma, "(" and letters.              *)

Digits == {"0", "1", "2", "3", "4", "5", "6", "7", "8", "9"}

DigitVal(c) ==
  CASE c = "0" -> 0 [] c = "1" -> 1 [] c = "2" -> 2 [] c = "3" -> 3
    [] c = "4" -> 4 [] c = "5" -> 5 [] c = "6" -> 6 [] c = "7" -> 7
    [] c = "8" -> 8 [] c = "9" -> 9

\* String.prototype.trim
RECURSIVE TrimLeft(_)
TrimLeft(s) == IF s # <<>> /\ Head(s) = " " THEN TrimLeft(Tail(s)) ELSE s
RECURSIVE TrimRight(_)
TrimRight(s) ==
  IF s # <<>> /\ s[Len(s)] = " " THEN TrimRight(SubSeq(s, 1, Len(s) - 1)) ELSE s
Trim(s) == TrimRight(TrimLeft(s))

\* The value of a sequence of digits.
RECURSIVE DigitsValue(_)
DigitsValue(s) ==
  IF s = <<>> THEN 0 ELSE 10 * DigitsValue(SubSeq(s, 1, Len(s) - 1)) + DigitVal(s[Len(s)])

\* The longest prefix of digits.
RECURSIVE DigitPrefix(_)
DigitPrefix(s) ==
  IF s # <<>> /\ Head(s) \in Digits THEN <<Head(s)>> \o DigitPrefix(Tail(s)) ELSE <<>>

\* Number(s): white space is trimmed, the empty string is 0, a string of
\* digits is its value, anything else over the alphabet is NaN (None).
ToNumber(s) ==
  LET t == Trim(s)
  IN IF t = <<>> THEN Some(0)
     ELSE IF DigitPrefix(t) = t THEN Some(DigitsValue(t)) ELSE None

\* parseFloat(s): leading white space is skipped and the longest numeric
\* prefix is read; with no such prefix the result is NaN (None).
ParseFloat(s) ==
  LET p == DigitPrefix(TrimLeft(s))
  IN IF p = <<>> THEN None ELSE Some(DigitsValue(p))

\* isNaN(s) on a string: Number(s) is NaN.
IsNaN(s) == ToNumber(s) = None

\* Date.parse / new Date on a string.  A date is kept as its day number and
\* written as that number's digits; any other text is an invalid date (None).
DateParse(s) == IF s # <<>> /\ DigitPrefix(s) = s THEN Some(DigitsValue(s)) ELSE None

\* toLowerCase on one character.
Lower(c) ==
  CASE c = "A" -> "a" [] c = "D" -> "d" [] c = "E" -> "e" [] c = "G" -> "g"
    [] c = "H" -> "h" [] c = "M" -> "m" [] c = "N" -> "n" [] c = "T" -> "t"
    [] OTHER -> c

----------------------------------------------------------------------------
(* Collection operations (the Mongo calls the code makes). *)

\* $addToSet
AddToSet(s, v) == IF v \in Range(s) THEN s ELSE Append(s, v)

\* Theater.updateOne({_id}, {$push: {showtimes: {$each}}, $addToSet: {movieTitles}})
TheaterPushLink(ths, id, showtimes, title) ==
  [i \in 1..Len(ths) |->
     IF ths[i].id = id
     THEN [ths[i] EXCEPT !.showtimes = @ \o showtimes,
                         !.movieTitles = AddToSet(@, title)]
     ELSE ths[i]]

\* findOne / findById: the first of the matching documents, or null.
First(hits) == IF hits = <<>> THEN None ELSE Some(Head(hits))

TheaterFindById(ths, id) == LET P(t) == t.id = id IN First(SelectSeq(ths, P))

TheaterFindOne(ths, name, location) ==
  LET P(t) == t.name = name /\ t.location = location IN First(SelectSeq(ths, P))

TheaterFindByName(ths, name) == LET P(t) == t.name = name IN First(SelectSeq(ths, P))

\* Theater.find().limit(n)
FindLimit(coll, n) == SubSeq(coll, 1, Min(n, Len(coll)))

\* Movie.findByIdAndUpdate(id, {$set: {embeddedTheaters}})
MovieSetEmbedded(ms, id, embedded) ==
  [i \in 1..Len(ms) |->
     IF ms[i].id = id THEN [ms[i] EXCEPT !.embeddedTheaters = embedded] ELSE ms[i]]

MovieSetTitle(ms, id, title) ==
  [i \in 1..Len(ms) |->
     IF ms[i].id = id THEN [ms[i] EXCEPT !.title = title] ELSE ms[i]]

MovieExists(ms, id) == \E i \in 1..Len(ms) : ms[i].id = id

\* Movie.findByIdAndDelete
MovieDelete(ms, id) == LET P(m) == m.id # id IN SelectSeq(ms, P)

----------------------------------------------------------------------------
(* The admin handlers: createMovie, updateMovie, deleteMovie,              *)
(* bulkCreateMovies.                                                       *)

Slots == 1..2

\* The admin handlers leave the rest of the state alone.
NotAdmin == UNCHANGED <<seed, query, fetch, search, handler>>

\* The keys of `required`, in the order Object.entries yields them.
requiredFields == <<"title", "genre", "posterUrl", "releaseDate", "language">>

\* Theater.find().limit(4)
defaultTheaterLimit == 4

\* !v for a request field: undefined or the empty string.
Falsy(v) == v = None \/ v = Some(<<>>)

\* Object.entries(required).filter(([_, v]) => !v).map(([k]) => k)
MissingFields(body) ==
  LET P(k) == Falsy(body[k]) IN SelectSeq(requiredFields, P)

\* theaters.map(t => (typeof t === 'string' ? t : t._id)), or [] when the
\* field is no array or an empty one.  An entry is [type, v]: the id string
\* itself, or an object whose _id is v.
TheaterIdsOf(ths) ==
  IF ths # None /\ Len(ths[1]) > 0
  THEN [i \in 1..Len(ths[1]) |-> ths[1][i].v]
  ELSE <<>>

IdleReq ==
  [pc |-> "idle", op |-> "none", body |-> None, theaterIds |-> <<>>,
   validTheaters |-> <<>>, movieId |-> 0, k |-> 0, theaterDoc |-> None,
   embedded |-> <<>>, status |-> 0, missing |-> <<>>]

CanStart(r) == reqs[r].pc \in {"idle", "done"}

\* A createMovie that does not validate the required fields first.
createMovieStartUnchecked(r, body) ==
  /\ CanStart(r)
  /\ LET ids == TheaterIdsOf(body.theaters)
     IN reqs' = [reqs EXCEPT ![r] =
          [IdleReq EXCEPT !.op = "createMovie", !.body = Some(body),
                          !.theaterIds = ids,
                          !.pc = IF ids = <<>> THEN "findDefault"
                                               ELSE "findById"]]
  /\ UNCHANGED <<movies, theaters, nextId>>
  /\ NotAdmin

\* Lines 211-263 up to the first await.
createMovieStart(r, body) ==
  /\ CanStart(r)
  /\ LET missing == MissingFields(body)
         ids == TheaterIdsOf(body.theaters)
     IN reqs' = [reqs EXCEPT ![r] =
          IF missing # <<>>
          THEN [IdleReq EXCEPT !.pc = "done", !.op = "createMovie",
                               !.body = Some(body), !.status = 400,
                               !.missing = missing]
          ELSE [IdleReq EXCEPT !.op = "createMovie", !.body = Some(body),
                               !.theaterIds = ids,
                               !.pc = IF ids = <<>> THEN "findDefault"
                                                    ELSE "findById"]]
  /\ UNCHANGED <<movies, theaters, nextId>>
  /\ NotAdmin

\* A createMovie without the fallback: no theater is looked up.
createMovieNoDefault(r) ==
  /\ reqs[r].pc = "findDefault"
  /\ reqs' = [reqs EXCEPT ![r].theaterIds = <<>>, ![r].pc = "findById"]
  /\ UNCHANGED <<movies, theaters, nextId>>
  /\ NotAdmin

\* Lines 260-263: await Theater.find().limit(4).
createMovieFindDefault(r) ==
  /\ reqs[r].pc = "findDefault"
  /\ LET defaultTheaters == FindLimit(theaters, defaultTheaterLimit)
     IN reqs' = [reqs EXCEPT ![r].theaterIds =
                   [i \in 1..Len(defaultTheaters) |-> defaultTheaters[i].id],
                 ![r].pc = "findById"]
  /\ UNCHANGED <<movies, theaters, nextId>>
  /\ NotAdmin

\* Lines 265-280: Promise.all of Theater.findById, then filter(Boolean).
createMovieFindById(r) ==
  /\ reqs[r].pc = "findById"
  /\ LET ids == reqs[r].theaterIds
         formattedTheaters ==
           [i \in 1..Len(ids) |-> TheaterFindById(theaters, ids[i])]
         Found(d) == d # None
         found == SelectSeq(formattedTheaters, Found)
     IN reqs' = [reqs EXCEPT ![r].validTheaters =
                   [i \in 1..Len(found) |->
                      [name |-> found[i][1].name, location |-> found[i][1].location]],
                 ![r].pc = "save"]
  /\ UNCHANGED <<movies, theaters, nextId>>
  /\ NotAdmin

\* After an iteration of the linking loop, or after save: the next await.
NextLinkPc(valid, k) == IF k <= Len(valid) THEN "findOne" ELSE "findByIdAndUpdate"

\* Lines 282-296: new Movie({...}) and await movie.save().
createMovieSave(r) ==
  /\ reqs[r].pc = "save"
  /\ LET b == reqs[r].body[1]
         releaseDate == DateParse(b.releaseDate[1])
     IN IF releaseDate = None
        THEN \* an Invalid Date fails the document's validation: save rejects
             /\ reqs' = [reqs EXCEPT ![r].pc = "done", ![r].status = 500]
             /\ UNCHANGED <<movies, nextId>>
        ELSE /\ movies' = Append(movies,
                  MovieDoc(nextId, b.title[1], b.genre[1], 0, b.language[1],
                           releaseDate[1], reqs[r].validTheaters, <<>>))
             /\ nextId' = nextId + 1
             /\ reqs' = [reqs EXCEPT ![r].movieId = nextId, ![r].k = 1,
                                     ![r].pc = NextLinkPc(reqs[r].validTheaters, 1)]
  /\ UNCHANGED theaters
  /\ NotAdmin

\* Lines 304-306: await Theater.findOne({name, location}).
createMovieFindOne(r) ==
  /\ reqs[r].pc = "findOne"
  /\ LET th == reqs[r].validTheaters[reqs[r].k]
         doc == TheaterFindOne(theaters, th.name, th.location)
     IN reqs' = [reqs EXCEPT ![r] =
          IF doc = None
          THEN [@ EXCEPT !.k = @ + 1,
                         !.pc = NextLinkPc(reqs[r].validTheaters, reqs[r].k + 1)]
          ELSE [@ EXCEPT !.theaterDoc = doc, !.pc = "updateOne"]]
  /\ UNCHANGED <<movies, theaters, nextId>>
  /\ NotAdmin

\* A lost-update variant of the linking write: the theater document read by
\* findOne is changed in memory and written back whole.
createMovieUpdateOneStale(r) ==
  /\ reqs[r].pc = "updateOne"
  /\ LET th == reqs[r].validTheaters[reqs[r].k]
         doc == reqs[r].theaterDoc[1]
         showtimes == Showtimes(reqs[r].movieId)
         title == reqs[r].body[1].title[1]
     IN /\ theaters' = [i \in 1..Len(theaters) |->
              IF theaters[i].id = doc.id
              THEN [doc EXCEPT !.showtimes = @ \o showtimes,
                               !.movieTitles = AddToSet(@, title)]
              ELSE theaters[i]]
        /\ reqs' = [reqs EXCEPT
              ![r].embedded = Append(@, [name |-> th.name,
                                         location |-> th.location,
                                         showtimes |-> showtimes]),
              ![r].theaterDoc = None,
              ![r].k = @ + 1,
              ![r].pc = NextLinkPc(reqs[r].validTheaters, reqs[r].k + 1)]
  /\ UNCHANGED <<movies, nextId>>
  /\ NotAdmin

\* Lines 308-329: await Theater.updateOne($push, $addToSet), embedded.push.
createMovieUpdateOne(r) ==
  /\ reqs[r].pc = "updateOne"
  /\ LET th == reqs[r].validTheaters[reqs[r].k]
         showtimes == Showtimes(reqs[r].movieId)
         title == reqs[r].body[1].title[1]
     IN /\ theaters' = TheaterPushLink(theaters, reqs[r].theaterDoc[1].id,
                                       showtimes, title)
        /\ reqs' = [reqs EXCEPT
              ![r].embedded = Append(@, [name |-> th.name,
                                         location |-> th.location,
                                         showtimes |-> showtimes]),
              ![r].theaterDoc = None,
              ![r].k = @ + 1,
              ![r].pc = NextLinkPc(reqs[r].validTheaters, reqs[r].k + 1)]
  /\ UNCHANGED <<movies, nextId>>
  /\ NotAdmin

\* Lines 331-336: await Movie.findByIdAndUpdate, then res.status(201).
createMovieFindByIdAndUpdate(r) ==
  /\ reqs[r].pc = "findByIdAndUpdate"
  /\ movies' = MovieSetEmbedded(movies, reqs[r].movieId, reqs[r].embedded)
  /\ reqs' = [reqs EXCEPT ![r].pc = "done", ![r].status = 201]
  /\ UNCHANGED <<theaters, nextId>>
  /\ NotAdmin

\* Lines 337-340: an awaited database call rejects; the catch answers 500.
createMovieCatch(r) ==
  /\ reqs[r].pc \in {"findDefault", "findById", "save", "findOne",
                     "updateOne", "findByIdAndUpdate"}
  /\ reqs' = [reqs EXCEPT ![r].pc = "done", ![r].status = 500]
  /\ UNCHANGED <<movies, theaters, nextId>>
  /\ NotAdmin

\* Lines 344-366.  `updates` is the request body: empty, or one field to set.
updateMovie(r, movieId, updates) ==
  /\ CanStart(r)
  /\ movies' =
       IF updates.field = "title" THEN MovieSetTitle(movies, movieId, updates.title)
       ELSE IF updates.field = "embeddedTheaters"
            THEN MovieSetEmbedded(movies, movieId, <<>>)
            ELSE movies
  /\ reqs' = [reqs EXCEPT ![r] =
       [IdleReq EXCEPT !.pc = "done", !.op = "updateMovie", !.movieId = movieId,
                       !.status = IF updates.field = "none" THEN 400
                                  ELSE IF MovieExists(movies, movieId) THEN 200
                                  ELSE 404]]
  /\ UNCHANGED <<theaters, nextId>>
  /\ NotAdmin

\* A deleteMovie that also pulls the movie's showtimes out of every theater.
deleteMovieCascade(r, movieId) ==
  /\ CanStart(r)
  /\ movies' = MovieDelete(movies, movieId)
  /\ theaters' = [i \in 1..Len(theaters) |->
        [theaters[i] EXCEPT !.showtimes =
           LET P(s) == s.movie # movieId IN SelectSeq(@, P)]]
  /\ reqs' = [reqs EXCEPT ![r] =
       [IdleReq EXCEPT !.pc = "done", !.op = "deleteMovie", !.movieId = movieId,
                       !.status = IF MovieExists(movies, movieId) THEN 200 ELSE 404]]
  /\ UNCHANGED nextId
  /\ NotAdmin

\* Lines 369-383.
deleteMovie(r, movieId) ==
  /\ CanStart(r)
  /\ movies' = MovieDelete(movies, movieId)
  /\ reqs' = [reqs EXCEPT ![r] =
       [IdleReq EXCEPT !.pc = "done", !.op = "deleteMovie", !.movieId = movieId,
                       !.status = IF MovieExists(movies, movieId) THEN 200 ELSE 404]]
  /\ UNCHANGED <<theaters, nextId>>
  /\ NotAdmin

\* Lines 386-400.  `docs` is req.body.movies: raw documents, stored as given.
bulkCreateMovies(r, docs) ==
  /\ CanStart(r)
  /\ movies' = movies \o
       [i \in 1..Len(docs) |->
          MovieDoc(nextId + i - 1, docs[i].title, <<"x">>, 0, <<"e", "n">>, 1,
                   <<>>, docs[i].embeddedTheaters)]
  /\ nextId' = nextId + Len(docs)
  /\ reqs' = [reqs EXCEPT ![r] =
       [IdleReq EXCEPT !.pc = "done", !.op = "bulkCreateMovies",
                       !.status = IF Len(docs) = 0 THEN 400 ELSE 201]]
  /\ UNCHANGED theaters
  /\ NotAdmin

----------------------------------------------------------------------------
(* Inputs of the admin handlers. *)

Titles == {<<"A">>, <<"B">>}

StringId(id) == [type |-> "string", v |-> id]
ObjectWithId(id) == [type |-> "object", v |-> id]

\* A well-formed id that no Theater document has.
UnknownTheaterId == 99

\* req.body.theaters: absent, empty, one theater, the same theater twice,
\* two theaters, an id that matches nothing.
TheaterInputs ==
  { None, Some(<<>>), Some(<<StringId(1)>>), Some(<<StringId(1), StringId(1)>>),
    Some(<<ObjectWithId(2), StringId(1)>>), Some(<<StringId(UnknownTheaterId)>>) }

Body(title, genre, posterUrl, releaseDate, language, ths) ==
  [title |-> title, genre |-> genre, posterUrl |-> posterUrl,
   releaseDate |-> releaseDate, language |-> language, theaters |-> ths]

GivenText == Some(<<"x">>)
GivenDate == Some(<<"7">>)

CompleteBodies ==
  { Body(Some(t), GivenText, GivenText, d, Some(<<"e", "n">>), ths) :
      t \in Titles, ths \in TheaterInputs, d \in {GivenDate} }

\* Bodies with one required field undefined or empty, with two, with all.
IncompleteBodies ==
  { Body(None, GivenText, GivenText, GivenDate, GivenText, None),
    Body(Some(<<>>), GivenText, GivenText, GivenDate, GivenText, None),
    Body(Some(<<"A">>), None, GivenText, GivenDate, GivenText, None),
    Body(Some(<<"A">>), GivenText, Some(<<>>), GivenDate, GivenText, None),
    Body(Some(<<"A">>), GivenText, GivenText, None, GivenText, None),
    Body(Some(<<"A">>), GivenText, GivenText, GivenDate, None, None),
    Body(Some(<<"A">>), None, GivenText, GivenDate, None, None),
    Body(None, None, None, None, None, None) }

\* The bodies of the concurrent requests: theaters absent, theater 1, or
\* theaters 2 and 1.
ConcBodies ==
  { b \in CompleteBodies :
      b.theaters \in {None, Some(<<StringId(1)>>),
                      Some(<<ObjectWithId(2), StringId(1)>>)} }

Updates ==
  { [field |-> "none", title |-> <<>>],
    [field |-> "embeddedTheaters", title |-> <<>>] }
  \cup { [field |-> "title", title |-> t] : t \in Titles }

\* req.body.movies of a bulk request: none, or one raw document whose
\* embeddedTheaters the caller wrote.
BulkInputs ==
  { <<>> } \cup
  { << [title |-> t, embeddedTheaters |-> e] >> :
      t \in Titles,
      e \in { <<>>,
              << [name |-> theaterList[1].name,
                  location |-> theaterList[1].location,
                  showtimes |-> << [startTime |-> "10:00", movie |-> 0] >>] >> } }

----------------------------------------------------------------------------
(* The parts of the state a specification does not use stay as they are. *)

IdleSeed ==
  [pc |-> "idle", t |-> 0, moviesToInsert |-> <<>>, insertedMovies |-> <<>>,
   m |-> 0, th |-> 0, theater |-> None, updatedTheaters |-> <<>>,
   embedded |-> <<>>]
NoBody == [count |-> 0, total |-> 0, page |-> 0, totalPages |-> 0, movies |-> <<>>]
IdleQuery == [pc |-> "idle", req |-> None, status |-> 0, body |-> NoBody]
IdleFetch ==
  [pc |-> "idle", retries |-> 0, delay |-> 0, i |-> 0, attempts |-> <<>>,
   waits |-> <<>>, result |-> [kind |-> "pending", data |-> ""]]
IdleSearch ==
  [pc |-> "idle", rawQuery |-> None, apiKey |-> FALSE, log |-> <<>>,
   results |-> <<>>, matchedLang |-> "", status |-> 0, body |-> <<>>]
IdleHandler ==
  [pc |-> "idle", h |-> 0, user |-> None, sent |-> 0, status |-> 0,
   errorField |-> FALSE, threw |-> FALSE, escaped |-> FALSE, byApp |-> 0]

\* The database before the admin handlers run: the first n theaters of the
\* seeded list, unlinked, and no movie.
InitDatabase ==
  /\ \E n \in 0..MaxTheaters :
       theaters = [i \in 1..n |-> TheaterDoc(i, theaterList[i].name,
                                             theaterList[i].location)]
  /\ movies = <<>>
  /\ nextId = 1

----------------------------------------------------------------------------
(* Spec: the admin handlers, one request at a time. *)

Init ==
  /\ InitDatabase
  /\ reqs = [r \in Slots |-> IdleReq]
  /\ seed = IdleSeed /\ query = IdleQuery /\ fetch = IdleFetch
  /\ search = IdleSearch /\ handler = IdleHandler

\* The model stops inserting at MaxMovies movies.
InsertsLeft(n) == (nextId - 1) + n <= MaxMovies

Next ==
  \/ \E b \in CompleteBodies \cup IncompleteBodies :
       InsertsLeft(1) /\ createMovieStart(1, b)
  \/ createMovieFindDefault(1)
  \/ createMovieFindById(1)
  \/ createMovieSave(1)
  \/ createMovieFindOne(1)
  \/ createMovieUpdateOne(1)
  \/ createMovieFindByIdAndUpdate(1)
  \/ createMovieCatch(1)
  \/ \E id \in 1..MaxMovies, u \in Updates : updateMovie(1, id, u)
  \/ \E id \in 1..MaxMovies : deleteMovie(1, id)
  \/ \E docs \in BulkInputs : InsertsLeft(Len(docs)) /\ bulkCreateMovies(1, docs)

Spec == Init /\ [][Next]_vars

----------------------------------------------------------------------------
(* ConcSpec: two admin createMovie requests, one per connection, served   *)
(* concurrently.                                                          *)

NextConc ==
  \/ \E r \in Slots, b \in ConcBodies :
       reqs[r].pc = "idle" /\ createMovieStart(r, b)
  \/ \E r \in Slots : createMovieFindDefault(r)
  \/ \E r \in Slots : createMovieFindById(r)
  \/ \E r \in Slots : createMovieSave(r)
  \/ \E r \in Slots : createMovieFindOne(r)
  \/ \E r \in Slots : createMovieUpdateOne(r)
  \/ \E r \in Slots : createMovieFindByIdAndUpdate(r)
  \/ \E r \in Slots : createMovieCatch(r)

ConcSpec == Init /\ [][NextConc]_vars

----------------------------------------------------------------------------
(* Properties of the admin handlers. *)

Created(r) ==
  reqs[r].pc = "done" /\ reqs[r].op = "createMovie" /\ reqs[r].status = 201

TitleOf(r) == reqs[r].body[1].title[1]

\* The showtimes a theater document holds for a movie, in order.
ShowtimesFor(t, movieId) ==
  LET P(s) == s.movie = movieId IN SelectSeq(t.showtimes, P)

Count(s, v) == Cardinality({i \in 1..Len(s) : s[i] = v})

\* The theater documents a finished createMovie linked.
LinkedBy(r, t) ==
  \E e \in Range(reqs[r].embedded) : e.name = t.name /\ e.location = t.location

StoredMovie(id) == LET P(m) == m.id = id IN First(SelectSeq(movies, P))

\* C7: the admin handlers only ever append to a Theater document's showtimes
\* and movieTitles; none of them (deleteMovie and updateMovie included)
\* removes or rewrites an entry, so what a theater holds for a movie
\* outlives the movie and its embedded copy.
C7_TheaterLinksOnlyGrow ==
  [][\A i \in 1..Len(theaters) :
       /\ Len(theaters'[i].showtimes) >= Len(theaters[i].showtimes)
       /\ SubSeq(theaters'[i].showtimes, 1, Len(theaters[i].showtimes))
            = theaters[i].showtimes
       /\ Len(theaters'[i].movieTitles) >= Len(theaters[i].movieTitles)
       /\ SubSeq(theaters'[i].movieTitles, 1, Len(theaters[i].movieTitles))
            = theaters[i].movieTitles]_vars

\* C7 (witness): a theater holds a showtime and a title of a movie that no
\* longer exists.
C7_DanglingTheaterLink ==
  \E i \in 1..Len(theaters) :
    /\ \E s \in Range(theaters[i].showtimes) : ~MovieExists(movies, s.movie)
    /\ \E t \in Range(theaters[i].movieTitles) :
         \A j \in 1..Len(movies) : movies[j].title # t

\* C8: once two createMovie requests have both answered 201, every theater
\* both linked holds the four showtimes of each movie and both titles.
C8_NoLostTheaterUpdate ==
  \A r1 \in Slots, r2 \in Slots :
    (r1 # r2 /\ Created(r1) /\ Created(r2)) =>
      \A i \in 1..Len(theaters) :
        (LinkedBy(r1, theaters[i]) /\ LinkedBy(r2, theaters[i])) =>
          \A r \in {r1, r2} :
            /\ Range(Showtimes(reqs[r].movieId)) \subseteq Range(theaters[i].showtimes)
            /\ TitleOf(r) \in Range(theaters[i].movieTitles)

\* C8 (witness): both requests answered 201 after interleaving their linking
\* loops: one theater got movie 1's showtimes first, another movie 2's.
C8_BothCreatedInterleaved ==
  /\ Created(1) /\ Created(2)
  /\ \E i \in 1..Len(theaters), j \in 1..Len(theaters) :
       /\ LinkedBy(1, theaters[i]) /\ LinkedBy(2, theaters[i])
       /\ LinkedBy(1, theaters[j]) /\ LinkedBy(2, theaters[j])
       /\ theaters[i].showtimes[1].movie = reqs[1].movieId
       /\ theaters[j].showtimes[1].movie = reqs[2].movieId

\* The theater documents the request's ids resolve to, without repetition.
ResolvedTheaters(r) ==
  {i \in 1..Len(theaters) : theaters[i].id \in Range(reqs[r].theaterIds)}

\* C9: after createMovie answers 201, each distinct theater resolved from the
\* request has gained exactly the four showtimes of the new movie, lists the
\* title exactly once, and the stored movie embeds exactly one entry for the
\* theater, holding those four showtimes.
C9_ExactlyFourShowtimesPerTheater ==
  Created(1) =>
    \A i \in ResolvedTheaters(1) :
      /\ ShowtimesFor(theaters[i], reqs[1].movieId) = Showtimes(reqs[1].movieId)
      /\ Count(theaters[i].movieTitles, TitleOf(1)) = 1
      /\ StoredMovie(reqs[1].movieId) # None
      /\ LET P(e) == e.name = theaters[i].name /\ e.location = theaters[i].location
             entries == SelectSeq(StoredMovie(reqs[1].movieId)[1].embeddedTheaters, P)
         IN /\ Len(entries) = 1
            /\ entries[1].showtimes = Showtimes(reqs[1].movieId)

\* C10: a createMovie whose theaters field is absent or an empty array links
\* the movie to the first (up to 4) theaters of the collection, so to at
\* least one theater when the collection is not empty.
C10_DefaultTheatersLinked ==
  (Created(1) /\ reqs[1].body[1].theaters \in {None, Some(<<>>)}) =>
    LET firsts == FindLimit(theaters, 4)
        stored == StoredMovie(reqs[1].movieId)
    IN /\ stored # None
       /\ Len(stored[1].embeddedTheaters) = Len(firsts)
       /\ \A i \in 1..Len(firsts) :
            /\ stored[1].embeddedTheaters[i].name = firsts[i].name
            /\ stored[1].embeddedTheaters[i].showtimes = Showtimes(reqs[1].movieId)
            /\ ShowtimesFor(firsts[i], reqs[1].movieId) = Showtimes(reqs[1].movieId)
            /\ TitleOf(1) \in Range(firsts[i].movieTitles)
       /\ Len(theaters) > 0 => Len(stored[1].embeddedTheaters) >= 1
       /\ \A i \in 1..Len(theaters) :
            i > 4 => ShowtimesFor(theaters[i], reqs[1].movieId) = <<>>

\* C10 (witness): a movie created without a theaters field in a collection
\* of more than four theaters.
C10_DefaultsUsed ==
  /\ Created(1) /\ reqs[1].body[1].theaters = None
  /\ Len(theaters) > 4
  /\ Len(StoredMovie(reqs[1].movieId)[1].embeddedTheaters) = 4

----------------------------------------------------------------------------
(* The seed script (seedMovies.js). *)

Oppenheimer == <<"O","p","p","e","n","h","e","i","m","e","r">>
Barbie == <<"B","a","r","b","i","e">>
Dashavatar == <<"D","a","s","h","a","v","a","t","a","r">>

\* The titles the script looks up: two of the list's first fourteen, and
\* its last, which has the manual fallback.
movieTitlesToSeed == <<Oppenheimer, Barbie, Dashavatar>>

NotSeed == UNCHANGED <<nextId, reqs, query, fetch, search, handler>>

\* Theater.updateMany({}, {$set: {movieTitles: [], showtimes: []}})
TheaterResetAll(ths) ==
  [i \in 1..Len(ths) |-> [ths[i] EXCEPT !.showtimes = <<>>, !.movieTitles = <<>>]]

NewTheaterId(ths) ==
  IF ths = <<>> THEN 1
  ELSE 1 + CHOOSE x \in {ths[i].id : i \in 1..Len(ths)} :
             \A i \in 1..Len(ths) : ths[i].id <= x

\* ensureTheater, lines 52-64: findOneAndUpdate({name}, {$set: {location,
\* showtimes: [], movieTitles: [], status}}, {upsert, new}).  The collection
\* after the call.
ensureTheater(ths, name, location) ==
  LET hit == TheaterFindByName(ths, name)
  IN IF hit = None
     THEN Append(ths, TheaterDoc(NewTheaterId(ths), name, location))
     ELSE [i \in 1..Len(ths) |->
             IF ths[i].id = hit[1].id
             THEN [ths[i] EXCEPT !.location = location, !.showtimes = <<>>,
                                 !.movieTitles = <<>>]
             ELSE ths[i]]

\* Lines 128-131: mongoose.connect.
seedConnect ==
  /\ seed.pc = "idle"
  /\ seed' = [seed EXCEPT !.pc = "deleteMany"]
  /\ UNCHANGED <<movies, theaters>>
  /\ NotSeed

\* Line 132: await Movie.deleteMany().
seedDeleteMany ==
  /\ seed.pc = "deleteMany"
  /\ movies' = <<>>
  /\ seed' = [seed EXCEPT !.pc = "updateMany"]
  /\ UNCHANGED theaters
  /\ NotSeed

\* Line 133: await Theater.updateMany(...).
seedUpdateMany ==
  /\ seed.pc = "updateMany"
  /\ theaters' = TheaterResetAll(theaters)
  /\ seed' = [seed EXCEPT !.pc = "fetchGenres"]
  /\ UNCHANGED movies
  /\ NotSeed

\* Lines 136-137: await fetchGenres(), which never rejects.
seedFetchGenres ==
  /\ seed.pc = "fetchGenres"
  /\ seed' = [seed EXCEPT !.pc = "fetchMovieData", !.t = 1]
  /\ UNCHANGED <<movies, theaters>>
  /\ NotSeed

\* Lines 152-171: the manual fallback for Dashavatar.
WithFallback(list) ==
  IF \E i \in 1..Len(list) : list[i] = Dashavatar THEN list
  ELSE Append(list, Dashavatar)

\* Lines 139-150 (one iteration) and, after the last, lines 152-173.
\* fetchMovieData yields a movie, yields null, or throws into the inner catch.
seedFetchMovieData(outcome) ==
  /\ seed.pc = "fetchMovieData"
  /\ LET title == movieTitlesToSeed[seed.t]
         list == IF outcome = "data" THEN Append(seed.moviesToInsert, title)
                 ELSE seed.moviesToInsert
         last == seed.t = Len(movieTitlesToSeed)
     IN seed' = [seed EXCEPT
          !.moviesToInsert = IF last THEN WithFallback(list) ELSE list,
          !.t = @ + 1,
          !.pc = IF last THEN "insertMany" ELSE "fetchMovieData"]
  /\ UNCHANGED <<movies, theaters>>
  /\ UNCHANGED <<nextId, reqs, query, fetch, search, handler>>

\* After a movie is linked, or after insertMany: the next await.
NextSeedPc(inserted, m) == IF m <= Len(inserted) THEN "ensureTheater" ELSE "done"

\* Lines 174-175: await Movie.insertMany(moviesToInsert).
seedInsertMany ==
  /\ seed.pc = "insertMany"
  /\ LET docs == [i \in 1..Len(seed.moviesToInsert) |->
                    MovieDoc(nextId + i - 1, seed.moviesToInsert[i], <<"x">>, 0,
                             <<"e", "n">>, 1, <<>>, <<>>)]
     IN /\ movies' = movies \o docs
        /\ nextId' = nextId + Len(docs)
        /\ seed' = [seed EXCEPT !.insertedMovies = docs, !.m = 1, !.th = 1,
                                !.updatedTheaters = <<>>, !.embedded = <<>>,
                                !.pc = NextSeedPc(docs, 1)]
  /\ UNCHANGED theaters
  /\ UNCHANGED <<reqs, query, fetch, search, handler>>

\* Line 204: await ensureTheater(name, location).
seedEnsureTheater ==
  /\ seed.pc = "ensureTheater"
  /\ LET entry == theaterList[seed.th]
         after == ensureTheater(theaters, entry.name, entry.location)
     IN /\ theaters' = after
        /\ seed' = [seed EXCEPT !.theater = TheaterFindByName(after, entry.name),
                                !.pc = "updateOne"]
  /\ UNCHANGED movies
  /\ NotSeed

\* Lines 206-228: await Theater.updateOne($push, $addToSet), then the pushes.
seedUpdateOne ==
  /\ seed.pc = "updateOne"
  /\ LET movie == seed.insertedMovies[seed.m]
         showtimes == Showtimes(movie.id)
         theater == seed.theater[1]
     IN /\ theaters' = TheaterPushLink(theaters, theater.id, showtimes, movie.title)
        /\ seed' = [seed EXCEPT
             !.updatedTheaters = Append(@, theater.id),
             !.embedded = Append(@, [name |-> theater.name,
                                     location |-> theater.location,
                                     showtimes |-> showtimes]),
             !.theater = None,
             !.th = @ + 1,
             !.pc = IF seed.th = Len(theaterList) THEN "findByIdAndUpdate"
                    ELSE "ensureTheater"]
  /\ UNCHANGED movies
  /\ NotSeed

\* Movie.findByIdAndUpdate(id, {$set: {theaters, embeddedTheaters}})
MovieSetLinks(ms, id, ths, embedded) ==
  [i \in 1..Len(ms) |->
     IF ms[i].id = id
     THEN [ms[i] EXCEPT !.theaters = ths, !.embeddedTheaters = embedded]
     ELSE ms[i]]

\* Lines 230-238: await Movie.findByIdAndUpdate, then the next movie.
seedFindByIdAndUpdate ==
  /\ seed.pc = "findByIdAndUpdate"
  /\ movies' = MovieSetLinks(movies, seed.insertedMovies[seed.m].id,
                             seed.updatedTheaters, seed.embedded)
  /\ seed' = [seed EXCEPT !.m = @ + 1, !.th = 1, !.updatedTheaters = <<>>,
                          !.embedded = <<>>,
                          !.pc = NextSeedPc(seed.insertedMovies, seed.m + 1)]
  /\ UNCHANGED theaters
  /\ NotSeed

\* Lines 239-241: an awaited database call rejects; the outer catch logs it.
seedCatch ==
  /\ seed.pc \in {"deleteMany", "updateMany", "insertMany", "ensureTheater",
                  "updateOne", "findByIdAndUpdate"}
  /\ seed' = [seed EXCEPT !.pc = "failed"]
  /\ UNCHANGED <<movies, theaters>>
  /\ NotSeed

\* The database the script finds: some of the listed theaters, linked or
\* not to an earlier movie, and that movie or none.
OldTitle == <<"O","l","d">>

InitSeed ==
  /\ \E n \in 0..MaxTheaters, linked \in BOOLEAN :
       /\ theaters = [i \in 1..n |->
            IF linked
            THEN [TheaterDoc(i, theaterList[i].name, theaterList[i].location)
                    EXCEPT !.showtimes = Showtimes(1), !.movieTitles = <<OldTitle>>]
            ELSE TheaterDoc(i, theaterList[i].name, theaterList[i].location)]
       /\ movies = IF linked
                   THEN << MovieDoc(1, OldTitle, <<"x">>, 0, <<"e", "n">>, 1, <<>>, <<>>) >>
                   ELSE <<>>
       /\ nextId = IF linked THEN 2 ELSE 1
  /\ reqs = [r \in Slots |-> IdleReq]
  /\ seed = IdleSeed /\ query = IdleQuery /\ fetch = IdleFetch
  /\ search = IdleSearch /\ handler = IdleHandler

NextSeed ==
  \/ seedConnect
  \/ seedDeleteMany
  \/ seedUpdateMany
  \/ seedFetchGenres
  \/ \E outcome \in {"data", "null", "throws"} : seedFetchMovieData(outcome)
  \/ seedInsertMany
  \/ seedEnsureTheater
  \/ seedUpdateOne
  \/ seedFindByIdAndUpdate
  \/ seedCatch

SeedSpec == InitSeed /\ [][NextSeed]_vars

\* C1: after the script has finished linking, every theater of the list
\* lists every inserted movie's title and holds the four showtimes the
\* movie embeds for it.
C1_SeedLinksEveryMovieToEveryTheater ==
  seed.pc = "done" =>
    \A m \in 1..Len(seed.insertedMovies) :
      \A i \in 1..Len(theaterList) :
        LET movie == StoredMovie(seed.insertedMovies[m].id)[1]
            theater == TheaterFindOne(theaters, theaterList[i].name,
                                      theaterList[i].location)[1]
            P(e) == e.name = theater.name
            entry == Head(SelectSeq(movie.embeddedTheaters, P))
        IN /\ movie.title \in Range(theater.movieTitles)
           /\ Len(entry.showtimes) = 4
           /\ \A k \in 1..4 :
                /\ entry.showtimes[k] = [startTime |-> times[k], movie |-> movie.id]
                /\ entry.showtimes[k] \in Range(theater.showtimes)

----------------------------------------------------------------------------
(* fetchWithRetry (seedMovies.js, lines 32-44). *)

defaultRetries == 5
defaultDelay == 2000

NotFetch == UNCHANGED <<movies, theaters, nextId, reqs, seed, query, search, handler>>

\* A back-off that does not grow with the attempt number.
BackoffFlat(delay, i) == delay

\* Line 41: the time waited after the failed attempt i (from 0).
Backoff(delay, i) == delay * (i + 1)

\* Line 33, entered from the call: the loop test with i = 0.  With
\* retries <= 0 the body never runs and the function returns undefined.
fetchCall(retries, delay) ==
  /\ fetch.pc \in {"idle", "returned"}
  /\ LET n == IF retries = None THEN defaultRetries ELSE retries[1]
         d == IF delay = None THEN defaultDelay ELSE delay[1]
     IN fetch' = [IdleFetch EXCEPT
          !.retries = n, !.delay = d,
          !.pc = IF 0 < n THEN "get" ELSE "returned",
          !.result = IF 0 < n THEN [kind |-> "pending", data |-> ""]
                     ELSE [kind |-> "undefined", data |-> ""]]
  /\ NotFetch

\* Lines 35-36: axios.get resolves; its data is returned.
fetchGetResolves(data) ==
  /\ fetch.pc = "get"
  /\ fetch' = [fetch EXCEPT !.attempts = Append(@, "ok"), !.pc = "returned",
                            !.result = [kind |-> "data", data |-> data]]
  /\ NotFetch

\* A rejection handler that treats a 404 like any other failure.
fetchGetRejectsRetrying404(failure) ==
  /\ fetch.pc = "get"
  /\ fetch' =
       IF fetch.i = fetch.retries - 1
       THEN [fetch EXCEPT !.attempts = Append(@, failure), !.pc = "returned",
                          !.result = [kind |-> "null", data |-> ""]]
       ELSE [fetch EXCEPT !.attempts = Append(@, failure), !.pc = "wait"]
  /\ NotFetch

\* Lines 37-41: axios.get rejects (an HTTP error status, a timeout).
fetchGetRejects(failure) ==
  /\ fetch.pc = "get"
  /\ fetch' =
       IF failure = "404" \/ fetch.i = fetch.retries - 1
       THEN [fetch EXCEPT !.attempts = Append(@, failure), !.pc = "returned",
                          !.result = [kind |-> "null", data |-> ""]]
       ELSE [fetch EXCEPT !.attempts = Append(@, failure), !.pc = "wait"]
  /\ NotFetch

\* Line 41 then line 33: the timer fires, i++, and the loop test passes.
fetchTimerFires ==
  /\ fetch.pc = "wait"
  /\ fetch' = [fetch EXCEPT !.waits = Append(@, Backoff(fetch.delay, fetch.i)),
                            !.i = @ + 1,
                            !.pc = IF fetch.i + 1 < fetch.retries THEN "get"
                                   ELSE "returned",
                            !.result = IF fetch.i + 1 < fetch.retries THEN @
                                       ELSE [kind |-> "undefined", data |-> ""]]
  /\ NotFetch

Failures == {"404", "500", "timeout"}

InitFetch ==
  /\ movies = <<>> /\ theaters = <<>> /\ nextId = 1
  /\ reqs = [r \in Slots |-> IdleReq]
  /\ seed = IdleSeed /\ query = IdleQuery /\ fetch = IdleFetch
  /\ search = IdleSearch /\ handler = IdleHandler

NextFetch ==
  \/ \E retries \in {None} \cup {Some(n) : n \in 0..MaxRetries},
        delay \in {None, Some(0), Some(10)} : fetchCall(retries, delay)
  \/ \E data \in {"genres", "results"} : fetchGetResolves(data)
  \/ \E failure \in Failures : fetchGetRejects(failure)
  \/ fetchTimerFires

FetchSpec == InitFetch /\ [][NextFetch]_vars

\* The attempts started so far: those that ended and the one in flight.
AttemptsStarted == Len(fetch.attempts) + (IF fetch.pc = "get" THEN 1 ELSE 0)

\* How the latest finished attempt ended ("none" before any has).
LastAttempt ==
  IF fetch.attempts = <<>> THEN "none" ELSE fetch.attempts[Len(fetch.attempts)]

\* C4: the attempts run one after another and number at most `retries`; the
\* first success ends the call with that attempt's data; each failed attempt
\* i (from 0) that is followed by another one is followed by a wait of
\* delay*(i+1) first; and when the last attempt fails the result is null.
C4_RetryBackoff ==
  fetch.pc # "idle" =>
    /\ AttemptsStarted <= Max(fetch.retries, 0)
    /\ \A j \in 1..Len(fetch.attempts) :
         fetch.attempts[j] = "ok" =>
           j = Len(fetch.attempts) /\ fetch.pc = "returned"
    /\ (fetch.pc = "returned" /\ LastAttempt = "ok")
         <=> fetch.result.kind = "data"
    /\ Len(fetch.waits) =
         (IF fetch.pc = "get" THEN AttemptsStarted - 1
          ELSE IF fetch.pc = "wait" THEN Len(fetch.attempts) - 1
          ELSE Max(Len(fetch.attempts) - 1, 0))
    /\ \A j \in 1..Len(fetch.waits) :
         /\ fetch.attempts[j] \in Failures
         /\ fetch.waits[j] = fetch.delay * ((j - 1) + 1)
    /\ (fetch.pc = "returned" /\ Len(fetch.attempts) = fetch.retries
          /\ LastAttempt \in Failures)
         => fetch.result.kind = "null"

\* C4 (witness): a call with the default arguments whose first four attempts
\* failed and whose fifth, the last allowed, failed too.
C4_AllDefaultAttemptsFailed ==
  /\ fetch.pc = "returned" /\ fetch.retries = defaultRetries
  /\ fetch.delay = defaultDelay
  /\ Len(fetch.attempts) = 5 /\ fetch.result.kind = "null"
  /\ fetch.waits = <<2000, 4000, 6000, 8000>>

----------------------------------------------------------------------------
(* searchTmdbMovie (tmdbController.js, lines 17-60). *)

supportedLanguages ==
  <<"en", "hi", "ta", "te", "ml", "mr", "kn", "bn", "gu", "pa", "ur">>

NotSearch == UNCHANGED <<movies, theaters, nextId, reqs, seed, query, fetch, handler>>

\* rawQuery.split(':')[0]
RECURSIVE BeforeColon(_)
BeforeColon(s) ==
  IF s = <<>> \/ Head(s) = ":" THEN <<>> ELSE <<Head(s)>> \o BeforeColon(Tail(s))

\* Lines 19-20: rawQuery?.split(':')[0].trim()
QueryOf(rawQuery) == IF rawQuery = None THEN None ELSE Some(Trim(BeforeColon(rawQuery[1])))

\* Lines 18-27, up to the first axios.get.
searchStart(rawQuery, apiKey) ==
  /\ search.pc \in {"idle", "done"}
  /\ search' =
       IF QueryOf(rawQuery) \in {None, Some(<<>>)}
       THEN [IdleSearch EXCEPT !.rawQuery = rawQuery, !.apiKey = apiKey,
                               !.pc = "done", !.status = 400]
       ELSE IF ~apiKey
       THEN [IdleSearch EXCEPT !.rawQuery = rawQuery, !.apiKey = apiKey,
                               !.pc = "done", !.status = 500]
       ELSE [IdleSearch EXCEPT !.rawQuery = rawQuery, !.apiKey = apiKey,
                               !.pc = "get"]
  /\ NotSearch

\* Lines 46-51: after the loop.
Respond(s) ==
  IF Len(s.results) = 0
  THEN [s EXCEPT !.pc = "done", !.status = 404]
  ELSE [s EXCEPT !.pc = "done", !.status = 200, !.body = s.results]

\* A search that gives up on the first language whose request fails.
searchGetAborting(response) ==
  /\ search.pc = "get"
  /\ LET lang == supportedLanguages[Len(search.log) + 1]
         logged == [search EXCEPT !.log = Append(@, [lang |-> lang,
                                                     response |-> response])]
     IN search' =
          IF response.kind = "error"
          THEN [logged EXCEPT !.pc = "done", !.status = 500]
          ELSE IF response.kind = "resolved" /\ response.status = 200
                  /\ Len(response.results) > 0
          THEN Respond([logged EXCEPT !.results = response.results,
                                      !.matchedLang = lang])
          ELSE IF Len(logged.log) = Len(supportedLanguages) THEN Respond(logged)
          ELSE logged
  /\ NotSearch

\* Lines 29-51: one iteration of the loop: the awaited axios.get for the
\* next language resolves or rejects; after a hit or the last language the
\* response is sent.
searchGet(response) ==
  /\ search.pc = "get"
  /\ LET lang == supportedLanguages[Len(search.log) + 1]
         logged == [search EXCEPT !.log = Append(@, [lang |-> lang,
                                                     response |-> response])]
     IN search' =
          IF response.kind = "resolved" /\ response.status = 200
             /\ Len(response.results) > 0
          THEN Respond([logged EXCEPT !.results = response.results,
                                      !.matchedLang = lang])
          ELSE IF Len(logged.log) = Len(supportedLanguages) THEN Respond(logged)
          ELSE logged
  /\ NotSearch

\* What one axios.get can bring: a rejection (network error, timeout, HTTP
\* error status), or a 2xx response with a results list.
Responses ==
  { [kind |-> "error", status |-> 0, results |-> <<>>],
    [kind |-> "resolved", status |-> 200, results |-> <<>>],
    [kind |-> "resolved", status |-> 203, results |-> <<"r1">>],
    [kind |-> "resolved", status |-> 200, results |-> <<"r1">>],
    [kind |-> "resolved", status |-> 200, results |-> <<"r2", "r1">>] }

RawQueries ==
  { None, Some(<<" ">>), Some(<<":", "a">>), Some(<<"a", ":", "b">>) }

InitSearch == InitFetch

NextSearch ==
  \/ \E q \in RawQueries, apiKey \in BOOLEAN : searchStart(q, apiKey)
  \/ \E response \in Responses : searchGet(response)

SearchSpec == InitSearch /\ [][NextSearch]_vars

IsHit(e) ==
  e.response.kind = "resolved" /\ e.response.status = 200
  /\ Len(e.response.results) > 0

\* C6: the languages are queried one at a time in the order of
\* supportedLanguages; the search stops at the first 200 response with
\* results and answers 200 with exactly them; a failed request moves on to
\* the next language; 404 is answered only when no language had results.
C6_LanguageFallback ==
  /\ \A j \in 1..Len(search.log) :
       /\ search.log[j].lang = supportedLanguages[j]
       /\ IsHit(search.log[j]) => j = Len(search.log) /\ search.pc = "done"
       /\ (search.log[j].response.kind = "error" /\ j = Len(search.log)
             /\ j < Len(supportedLanguages)) => search.pc = "get"
  /\ (search.pc = "done" /\ search.log # <<>>) =>
       LET last == search.log[Len(search.log)]
       IN IF IsHit(last)
          THEN search.status = 200 /\ search.body = last.response.results
          ELSE /\ search.status = 404
               /\ Len(search.log) = Len(supportedLanguages)
  /\ search.status = 404 =>
       /\ Len(search.log) = Len(supportedLanguages)
       /\ \A j \in 1..Len(search.log) : ~IsHit(search.log[j])

\* C6 (witness): the first three languages failed or had nothing, the fourth
\* answered 200 with results, and those were returned.
C6_FourthLanguageHit ==
  /\ search.pc = "done" /\ search.status = 200
  /\ Len(search.log) = 4
  /\ search.log[1].response.kind = "error"
  /\ search.log[3].response.kind = "error"
  /\ search.body = <<"r2", "r1">>

----------------------------------------------------------------------------
(* getMovies (movieController.js, lines 10-128).  Query parameters are     *)
(* strings (or absent); dates are day numbers.                             *)

NotQuery == UNCHANGED <<movies, theaters, nextId, reqs, seed, fetch, search, handler>>

\* Lines 25-26: the start of the current day.
today == 5

defaultPage == 1
defaultLimit == 20
maxLimit == 100

\* A string in a condition: absent and "" are falsy.
Truthy(v) == v # None /\ v[1] # <<>>

\* v?.trim()
OptTrim(v) == IF v = None THEN None ELSE Some(Trim(v[1]))

\* text matches /pat/i, for a pattern of characters that stand for
\* themselves: pat occurs in text, letter case aside.
Contains(text, pat) ==
  \E i \in 0..(Len(text) - Len(pat)) :
    \A j \in 1..Len(pat) : Lower(text[i + j]) = Lower(pat[j])

\* The $regex string is handed to the database as written: an unbalanced
\* "(" is not a regular expression and the query is rejected.
ValidRegex(pat) == "(" \notin Range(pat)

Regex(path, pat) == <<[path |-> path, op |-> "$regex", arg |-> pat]>>
Compare(path, op, n) == <<[path |-> path, op |-> op, arg |-> n]>>

\* Lines 28-70: the filters, in the order they are pushed.  A number that
\* is NaN is None.
Filters(req) ==
  (IF req.isUpcoming = Some(<<"t","r","u","e">>)
   THEN Compare("releaseDate", "$gt", Some(today)) ELSE <<>>)
  \o (IF req.isUpcoming = Some(<<"f","a","l","s","e">>)
      THEN Compare("releaseDate", "$lte", Some(today)) ELSE <<>>)
  \o (IF Truthy(req.releasedAfter) /\ DateParse(req.releasedAfter[1]) # None
      THEN Compare("releaseDate", "$gte", DateParse(req.releasedAfter[1]))
      ELSE <<>>)
  \o (IF Truthy(OptTrim(req.location))
      THEN Regex("embeddedTheaters.location", Trim(req.location[1])) ELSE <<>>)
  \o (IF Truthy(OptTrim(req.genre))
      THEN Regex("genre", Trim(req.genre[1])) ELSE <<>>)
  \o (IF Truthy(req.minRating) /\ ~IsNaN(req.minRating[1])
      THEN Compare("rating", "$gte", ParseFloat(req.minRating[1])) ELSE <<>>)
  \o (IF Truthy(OptTrim(req.language))
      THEN Regex("language", Trim(req.language[1])) ELSE <<>>)

\* One filter on one document.  Nothing compares with NaN.
Matches(f, m) ==
  CASE f.op = "$regex" ->
         (CASE f.path = "genre" -> Contains(m.genre, f.arg)
            [] f.path = "language" -> Contains(m.language, f.arg)
            [] OTHER -> \E e \in Range(m.embeddedTheaters) :
                          Contains(e.location, f.arg))
    [] f.arg = None -> FALSE
    [] f.op = "$gt" -> m.releaseDate > f.arg[1]
    [] f.op = "$lte" -> m.releaseDate <= f.arg[1]
    [] f.path = "rating" -> m.rating >= f.arg[1]
    [] OTHER -> m.releaseDate >= f.arg[1]

\* { $and: filters }
MatchesAll(filters, m) == \A k \in 1..Len(filters) : Matches(filters[k], m)

RejectedByDatabase(filters) ==
  \E k \in 1..Len(filters) :
    filters[k].op = "$regex" /\ ~ValidRegex(filters[k].arg)

HasNaN(filters) ==
  \E k \in 1..Len(filters) : filters[k].op # "$regex" /\ filters[k].arg = None

\* Lines 73-75: the key the page is sorted by.
SortKey(m, sortBy) == IF sortBy = Some("rating") THEN m.rating ELSE m.releaseDate

\* $sort: { key: -1 } on documents whose keys differ.
SortDesc(docs, sortBy) ==
  [i \in 1..Len(docs) |->
     CHOOSE d \in Range(docs) :
       Cardinality({e \in Range(docs) : SortKey(e, sortBy) > SortKey(d, sortBy)})
         = i - 1]

Sorted(docs, sortBy) ==
  IF sortBy \in {Some("rating"), Some("releaseDate")}
  THEN SortDesc(docs, sortBy) ELSE docs

\* Number(v), v defaulted when absent.
NumberOr(v, default) == IF v = None THEN Some(default) ELSE ToNumber(v[1])

\* Line 78.  Math.min of NaN is NaN.
SafeLimit(req) ==
  LET n == NumberOr(req.limit, defaultLimit)
  IN IF n = None THEN None ELSE Some(Min(n[1], maxLimit))

\* Line 79.
SafePage(req) ==
  LET n == NumberOr(req.page, defaultPage)
  IN IF n = None THEN None ELSE Some(Max(n[1], 1))

\* $skip then $limit.
Page(docs, skip, limit) == SubSeq(docs, skip + 1, Min(skip + limit, Len(docs)))

CeilDiv(a, b) == (a + b - 1) \div b

\* Lines 10-128.  searchHits is what the $search stage lets through when a
\* title is given (the text index decides; any of the documents may pass);
\* castThrows says whether countDocuments rejects a NaN bound (the schema
\* decides; aggregate does not cast).
getMovies(req, searchHits, castThrows) ==
  /\ query.pc = "idle"
  /\ LET filters == Filters(req)
         titled == Truthy(OptTrim(req.title))
         safeLimit == SafeLimit(req)
         safePage == SafePage(req)
     IN IF \/ RejectedByDatabase(filters)
           \/ safeLimit = None \/ safePage = None
           \/ (safeLimit # None /\ safeLimit[1] <= 0)
           \/ (~titled /\ HasNaN(filters) /\ castThrows)
        THEN query' = [pc |-> "done", req |-> Some(req), status |-> 500,
                       body |-> NoBody]
        ELSE LET source == IF titled
                           THEN SelectSeq(movies, LAMBDA m : m.id \in searchHits)
                           ELSE movies
                 matched == SelectSeq(source, LAMBDA m : MatchesAll(filters, m))
                 page == Page(Sorted(matched, req.sortBy),
                              (safePage[1] - 1) * safeLimit[1], safeLimit[1])
                 total == IF titled THEN Len(page)
                          ELSE Len(SelectSeq(movies,
                                     LAMBDA m : MatchesAll(filters, m)))
             IN query' = [pc |-> "done", req |-> Some(req), status |-> 200,
                          body |-> [count |-> Len(page), total |-> total,
                                    page |-> safePage[1],
                                    totalPages |-> CeilDiv(total, safeLimit[1]),
                                    movies |-> [i \in 1..Len(page) |-> page[i].id]]]
  /\ NotQuery

GenreDrama == <<"D", "r", "a", "m", "a", ",", " ", "A", "c", "t", "i", "o", "n">>
GenreAction == <<"A", "c", "t", "i", "o", "n">>

\* The documents the collection is filled from: ratings and release dates
\* differ from document to document.
SampleMovies ==
  << MovieDoc(1, <<"A">>, GenreDrama, 8, <<"e","n">>, 3, <<>>,
              <<[name |-> "Cinepolis - Korum Mall", location |-> LocThane]>>),
     MovieDoc(2, <<"B">>, GenreAction, 6, <<"h","i">>, 7, <<>>,
              <<[name |-> "PVR Phoenix Kurla", location |-> LocMumbai],
                [name |-> "INOX - Viviana Mall", location |-> LocThane]>>),
     MovieDoc(3, <<"A">>, GenreDrama, 9, <<"e","n">>, 5, <<>>, <<>>),
     MovieDoc(4, <<"B">>, GenreAction, 7, <<"t","e">>, 9, <<>>,
              <<[name |-> "PVR - Orion Mall", location |-> LocNaviMumbai]>>),
     MovieDoc(5, <<"A">>, GenreDrama, 4, <<"e","n">>, 4, <<>>, <<>>) >>

AllRequests ==
  [ isUpcoming : {None, Some(<<"t", "r", "u", "e">>), Some(<<"f", "a", "l", "s", "e">>), Some(<<"y", "e", "s">>)},
    releasedAfter : {None, Some(<<"x">>), Some(<<"4">>)},
    location : {None, Some(<<" ">>), Some(<<"t", "H">>), Some(<<"(">>)},
    genre : {None, Some(<<" ">>), Some(<<" ", "d", "R">>)},
    language : {None, Some(<<"E", "N">>)},
    minRating : {None, Some(<<" ">>), Some(<<"7">>), Some(<<"a">>)},
    sortBy : {None, Some("rating"), Some("releaseDate")},
    title : {None, Some(<<"A">>)},
    page : {None, Some(<<"2">>), Some(<<"0">>)},
    limit : {None, Some(<<"1">>), Some(<<"2">>), Some(<<"1", "5", "0">>)} ]

\* The parameters a request carries.
Given(req) ==
  Cardinality({f \in DOMAIN req : req[f] # None})

Requests == {req \in AllRequests : Given(req) <= MaxParams}

InitQuery ==
  /\ \E n \in 0..MaxDocs : movies = SubSeq(SampleMovies, 1, n)
  /\ theaters = <<>> /\ nextId = 1
  /\ reqs = [r \in Slots |-> IdleReq]
  /\ seed = IdleSeed /\ query = IdleQuery /\ fetch = IdleFetch
  /\ search = IdleSearch /\ handler = IdleHandler

\* One request per behaviour.  The two choices are drawn only where the
\* handler consults them.
NextQuery ==
  /\ query.pc = "idle"
  /\ \E req \in Requests,
        searchHits \in SUBSET {movies[i].id : i \in 1..Len(movies)},
        castThrows \in BOOLEAN :
          /\ Truthy(OptTrim(req.title))
               \/ searchHits = {movies[i].id : i \in 1..Len(movies)}
          /\ (HasNaN(Filters(req)) /\ ~Truthy(OptTrim(req.title))) \/ ~castThrows
          /\ getMovies(req, searchHits, castThrows)

QuerySpec == InitQuery /\ [][NextQuery]_vars

\* A filter parameter the caller supplied with a usable value.
IsNumeric(v) == Truthy(OptTrim(v)) /\ ToNumber(v[1]) # None
IsDate(v) == Truthy(v) /\ DateParse(v[1]) # None
IsText(v) == Truthy(OptTrim(v))

\* The conjunction of the supplied valid filters, on one movie.
Wanted(req, m) ==
  /\ req.isUpcoming = Some(<<"t", "r", "u", "e">>) => m.releaseDate > today
  /\ req.isUpcoming = Some(<<"f", "a", "l", "s", "e">>) => m.releaseDate <= today
  /\ IsDate(req.releasedAfter) => m.releaseDate >= DateParse(req.releasedAfter[1])[1]
  /\ IsText(req.location) =>
       \E e \in Range(m.embeddedTheaters) : Contains(e.location, Trim(req.location[1]))
  /\ IsText(req.genre) => Contains(m.genre, Trim(req.genre[1]))
  /\ IsText(req.language) => Contains(m.language, Trim(req.language[1]))
  /\ IsNumeric(req.minRating) => m.rating >= ToNumber(req.minRating[1])[1]

WantedMovies(req) == SelectSeq(movies, LAMBDA m : Wanted(req, m))

\* The text filters of the request are plain text, which a case-insensitive
\* match is defined for.
PlainText(req) ==
  \A v \in {req.location, req.genre, req.language} :
    v # None => ValidRegex(v[1])

InRange(v, lo, hi) ==
  v # None /\ Trim(v[1]) # <<>> /\ ToNumber(v[1]) # None
  /\ ToNumber(v[1])[1] >= lo /\ ToNumber(v[1])[1] <= hi

\* C2: a request without a title, with numeric page >= 1 and limit in
\* 1..100, is answered with that page number, the matching movies at
\* positions (page-1)*limit .. page*limit-1 of the sorted matching set,
\* count = their number (<= limit), total = the number of all matching
\* movies and totalPages = ceil(total / limit).
C2_PaginationMath ==
  (/\ query.pc = "done"
   /\ query.req[1].title = None
   /\ InRange(query.req[1].page, 1, 100)
   /\ InRange(query.req[1].limit, 1, 100)) =>
    LET req == query.req[1]
        page == ToNumber(req.page[1])[1]
        limit == ToNumber(req.limit[1])[1]
        all == Sorted(WantedMovies(req), req.sortBy)
        expected == Page(all, (page - 1) * limit, limit)
    IN /\ query.status = 200
       /\ query.body.page = page
       /\ query.body.movies = [i \in 1..Len(expected) |-> expected[i].id]
       /\ query.body.count = Len(query.body.movies)
       /\ query.body.count <= limit
       /\ query.body.total = Len(all)
       /\ query.body.totalPages = CeilDiv(Len(all), limit)

\* Pagination the handler can carry out: page a number, limit a number >= 1.
Paginable(req) ==
  /\ req.page = None \/ InRange(req.page, 0, 100)
  /\ req.limit = None \/ InRange(req.limit, 1, 1000)

\* C3: every movie returned satisfies all supplied valid filters, and an
\* absent, blank or invalid filter parameter constrains nothing and causes
\* no error: the request succeeds and, without a title, its total is the
\* number of movies satisfying the valid filters.
C3_FilterConjunction ==
  (query.pc = "done" /\ PlainText(query.req[1]) /\ Paginable(query.req[1])) =>
    LET req == query.req[1]
    IN /\ query.status = 200
       /\ \A k \in 1..Len(query.body.movies) :
            \E m \in Range(movies) : m.id = query.body.movies[k] /\ Wanted(req, m)
       /\ req.title = None => query.body.total = Len(WantedMovies(req))

----------------------------------------------------------------------------
(* The request handlers and what each can send.  guarded: the body is      *)
(* inside try/catch; readsUser: the body starts by reading req.user.role;  *)
(* awaits: the body awaits a database or an external call; early: the      *)
(* statuses of its early returns; ok: the status of its last line; caught: *)
(* the status its catch block sends.                                       *)

NotHandler == UNCHANGED <<movies, theaters, nextId, reqs, seed, query, fetch, search>>

Handler(name, guarded, readsUser, awaits, early, ok, caught) ==
  [name |-> name, guarded |-> guarded, readsUser |-> readsUser,
   awaits |-> awaits, early |-> early, ok |-> ok, caught |-> caught]

movieHandlers ==
  << Handler("getMovies", TRUE, FALSE, TRUE, {}, 200, 500),
     Handler("getMovieById", TRUE, FALSE, TRUE, {400, 404}, 200, 500),
     Handler("getAllGenres", TRUE, FALSE, TRUE, {}, 200, 500),
     Handler("createMovie", TRUE, FALSE, TRUE, {}, 201, 400),
     Handler("admin.createMovie", TRUE, FALSE, TRUE, {400}, 201, 500),
     Handler("admin.updateMovie", TRUE, FALSE, TRUE, {400, 404}, 200, 500),
     Handler("admin.deleteMovie", TRUE, FALSE, TRUE, {400, 404}, 200, 500),
     Handler("admin.bulkCreateMovies", TRUE, FALSE, TRUE, {400}, 201, 500),
     Handler("admin.getAllBookings", TRUE, TRUE, TRUE, {403}, 200, 500),
     Handler("admin.getAllUsers", TRUE, TRUE, TRUE, {403}, 200, 500),
     Handler("admin.getAdminStats", TRUE, TRUE, TRUE, {403}, 200, 500),
     Handler("admin.getMovieById", TRUE, FALSE, TRUE, {404}, 200, 500),
     Handler("admin.getAllMovies", TRUE, FALSE, TRUE, {}, 200, 500),
     Handler("admin.pingAdmin", FALSE, TRUE, FALSE, {403}, 200, 0) >>

tmdbHandlers ==
  << Handler("searchTmdbMovie", TRUE, FALSE, TRUE, {400, 500, 404}, 200, 500),
     Handler("getTmdbMovieDetails", TRUE, FALSE, TRUE, {500, 404}, 200, 500) >>

handlers == movieHandlers \o tmdbHandlers

\* req.user as the route's middleware left it: unset, or a user's role.
Users == {None, Some("admin"), Some("user")}

Current == handlers[handler.h]

\* The role check `req.user.role !== 'admin'` turns the request away.
Denied == Current.readsUser /\ handler.user # None /\ handler.user # Some("admin")

\* Reading .role of an unset req.user throws a TypeError.
UserUnset == Current.readsUser /\ handler.user = None

\* Express calls the handler.
handlerCall(h, user) ==
  /\ handler.pc = "idle"
  /\ handler' = [IdleHandler EXCEPT !.pc = "running", !.h = h, !.user = user]
  /\ NotHandler

\* An early `return res.status(...).json({ error })`.
handlerReturnsEarly(status) ==
  /\ handler.pc = "running" /\ ~UserUnset
  /\ status \in Current.early
  /\ Current.readsUser => (status = 403 /\ Denied)
  /\ handler' = [handler EXCEPT !.pc = "done", !.sent = @ + 1,
                                !.status = status, !.errorField = TRUE]
  /\ NotHandler

\* The last line of the body sends the result.
handlerResponds ==
  /\ handler.pc = "running" /\ ~UserUnset /\ ~Denied
  /\ handler' = [handler EXCEPT !.pc = "done", !.sent = @ + 1,
                                !.status = Current.ok]
  /\ NotHandler

\* Something in the body throws: the read of req.user.role, or an awaited
\* call that rejects.  Inside try the catch block is next; otherwise the
\* exception leaves the handler.
handlerThrows ==
  /\ handler.pc = "running"
  /\ UserUnset \/ (Current.awaits /\ ~Denied)
  /\ handler' = IF Current.guarded
                THEN [handler EXCEPT !.pc = "catch", !.threw = TRUE]
                ELSE [handler EXCEPT !.pc = "escaped", !.threw = TRUE,
                                     !.escaped = TRUE]
  /\ NotHandler

\* The catch block: res.status(...).json({ error }).
handlerCatch ==
  /\ handler.pc = "catch"
  /\ handler' = [handler EXCEPT !.pc = "done", !.sent = @ + 1,
                                !.status = Current.caught, !.errorField = TRUE]
  /\ NotHandler

\* The application's error middleware answers for an exception that left a
\* handler.
errorMiddleware ==
  /\ handler.pc = "escaped"
  /\ handler' = [handler EXCEPT !.pc = "done", !.byApp = @ + 1]
  /\ NotHandler

InitHandler == InitFetch

NextHandler ==
  \/ \E h \in 1..Len(handlers), user \in Users : handlerCall(h, user)
  \/ \E status \in {400, 403, 404, 500} : handlerReturnsEarly(status)
  \/ handlerResponds
  \/ handlerThrows
  \/ handlerCatch
  \/ errorMiddleware

HandlerSpec == InitHandler /\ [][NextHandler]_vars

\* C5: every handler sends exactly one response per request, and when
\* something throws the handler itself answers with a 4xx/5xx status and an
\* error field; no exception leaves a handler.
C5_OneResponseNoEscape ==
  /\ ~handler.escaped
  /\ handler.pc = "done" =>
       /\ handler.sent = 1
       /\ handler.threw =>
            handler.status >= 400 /\ handler.status <= 599 /\ handler.errorField

----------------------------------------------------------------------------
(* createMovie: validation and failure (movieController.js, 210-341). *)

\* The required fields a body leaves undefined or empty.
Lacking(body) ==
  {k \in Range(requiredFields) : body[k] = None \/ body[k] = Some(<<>>)}

\* C11: a step of an admin createMovie whose body lacks a required field is
\* the request's only step: it answers 400 naming exactly the lacking
\* fields, each once, and it leaves the Movie and Theater collections as
\* they are; the request never comes to a step that awaits the database.
C11_MissingFieldsRejected ==
  [][\A r \in Slots :
       (/\ reqs'[r] # reqs[r]
        /\ reqs'[r].op = "createMovie"
        /\ Lacking(reqs'[r].body[1]) # {}) =>
         /\ reqs[r].pc \in {"idle", "done"}
         /\ reqs'[r].pc = "done"
         /\ reqs'[r].status = 400
         /\ Range(reqs'[r].missing) = Lacking(reqs'[r].body[1])
         /\ Len(reqs'[r].missing) = Cardinality(Lacking(reqs'[r].body[1]))
         /\ movies' = movies /\ theaters' = theaters /\ nextId' = nextId]_vars

\* C11 (witness): a request lacking genre and language was answered 400
\* with those two names while theaters exist.
C11_TwoFieldsMissing ==
  /\ reqs[1].op = "createMovie" /\ reqs[1].pc = "done"
  /\ reqs[1].status = 400
  /\ reqs[1].missing = <<"genre", "language">>
  /\ theaters # <<>>

\* C12: once an admin createMovie has answered 400 or 500, the database
\* holds nothing of that request: no Movie document it saved and no Theater
\* showtime that refers to one.
C12_ErrorLeavesDatabaseUnchanged ==
  \A r \in Slots :
    (reqs[r].op = "createMovie" /\ reqs[r].pc = "done"
       /\ reqs[r].status \in {400, 500}) =>
      /\ \A i \in 1..Len(movies) : movies[i].id # reqs[r].movieId
      /\ \A i \in 1..Len(theaters) :
           \A j \in 1..Len(theaters[i].showtimes) :
             theaters[i].showtimes[j].movie # reqs[r].movieId

\* C13: a 404 ends the call at once: it is the last attempt, null is
\* returned and no wait follows it; any other failure with attempts left is
\* followed by a wait and another attempt.
C13_StopsAt404 ==
  \A j \in 1..Len(fetch.attempts) :
    /\ fetch.attempts[j] = "404" =>
         /\ j = Len(fetch.attempts)
         /\ fetch.pc = "returned" /\ fetch.result.kind = "null"
         /\ Len(fetch.waits) = j - 1
    /\ (fetch.attempts[j] \in Failures \ {"404"} /\ j < fetch.retries) =>
         \/ fetch.pc = "wait" /\ j = Len(fetch.attempts)
         \/ AttemptsStarted > j /\ Len(fetch.waits) >= j

\* C13 (witness): the first attempt failed with 500, was retried after the
\* wait, and the second met a 404 with attempts to spare.
C13_NotFoundOnSecondAttempt ==
  /\ fetch.pc = "returned" /\ fetch.retries = defaultRetries
  /\ fetch.attempts = <<"500", "404">>
  /\ fetch.waits = <<fetch.delay>>
  /\ fetch.result.kind = "null"

====
